---- MODULE Spec2Model ----
(***************************************************************************)
(* Model of k4ProjectTemplate/options/commonArgParsing.py:                 *)
(* the DetectorModel record, the DetectorModelRegistry, the choices of the *)
(* --detectorModels option and the CaseInsensitiveDict detModNames.        *)
(*                                                                         *)
(* A Python str is a sequence of code points (ASCII here); a dict is a     *)
(* function from its keys to its values; a raised exception is a result    *)
(* record whose kind names the exception.                                  *)
(***************************************************************************)
EXTENDS Integers, Sequences, FiniteSets, TLC

VARIABLES _models, registered, detModNames, ret

vars == <<_models, registered, detModNames, ret>>

(***************************************************************************)
(* Strings                                                                 *)
(***************************************************************************)

\* one code point of str.lower(): 'A'..'Z' map to 'a'..'z'
LowerChar(c) == IF c >= 65 /\ c <= 90 THEN c + 32 ELSE c

\* one code point of str.upper(): 'a'..'z' map to 'A'..'Z'
UpperChar(c) == IF c >= 97 /\ c <= 122 THEN c - 32 ELSE c

\* str.lower()
Lower(s) == [i \in 1..Len(s) |-> LowerChar(s[i])]

\* str.upper()
Upper(s) == [i \in 1..Len(s) |-> UpperChar(s[i])]

\* mixed-case spellings of s: first letter upper, rest lower, and its inverse
Capitalize(s) == [i \in 1..Len(s) |-> IF i = 1 THEN UpperChar(s[i]) ELSE LowerChar(s[i])]

Uncapitalize(s) == [i \in 1..Len(s) |-> IF i = 1 THEN LowerChar(s[i]) ELSE UpperChar(s[i])]

\* the upper/lower case variations of s that the model probes
CaseVariations(s) == {s, Lower(s), Upper(s), Capitalize(s), Uncapitalize(s)}

HasUpper(s) == \E i \in 1..Len(s) : s[i] >= 65 /\ s[i] <= 90

\* Python's str ordering: lexicographic by code point
StrLess(s, t) ==
    \E i \in 1..(Len(t)) :
        /\ \A j \in 1..(i - 1) : j <= Len(s) /\ s[j] = t[j]
        /\ \/ i > Len(s)
           \/ s[i] < t[i]

RECURSIVE Sorted(_)
\* sorted(set(...)): the elements of S in ascending order
Sorted(S) ==
    IF S = {} THEN <<>>
    ELSE LET m == CHOOSE x \in S : \A y \in S : y = x \/ StrLess(x, y)
         IN  <<m>> \o Sorted(S \ {m})

Range(q) == {q[i] : i \in DOMAIN q}

(***************************************************************************)
(* DetectorModel records                                                   *)
(***************************************************************************)

DetectorModel(s, l, p, acc) ==
    [short_name |-> s, long_name |-> l, pub_name |-> p, accelerator |-> acc]

\* the five models the module registers, in the order it registers them
BuiltinModels ==
    << DetectorModel(<<105, 102, 49>>, <<70, 67, 67, 48, 49>>,
                     <<73, 76, 68, 95, 70, 67, 67, 101, 101, 95, 118, 48, 49>>, "FCCee"),
       DetectorModel(<<105, 102, 50>>, <<70, 67, 67, 48, 50>>,
                     <<73, 76, 68, 95, 70, 67, 67, 101, 101, 95, 118, 48, 50>>, "FCCee"),
       DetectorModel(<<118, 48, 50>>, <<73, 76, 67, 48, 50>>,
                     <<73, 76, 68, 95, 108, 53, 95, 118, 48, 50>>, "ILC"),
       DetectorModel(<<118, 48, 51>>, <<73, 76, 67, 48, 51>>,
                     <<73, 76, 68, 95, 108, 53, 95, 118, 48, 51>>, "ILC"),
       DetectorModel(<<118, 48, 53>>, <<73, 76, 67, 48, 53>>,
                     <<73, 76, 68, 95, 108, 53, 95, 118, 48, 53>>, "ILC") >>

\* further models a caller may pass to register:
\*   ("a1","b1","c1"), ("A1","B1","C1") the same aliases in capitals,
\*   ("d1","a1","e1") whose long name is the first one's short name,
\*   ("Xy","Zw","Uv") in mixed case, ("k1","K1","k_1") with two aliases
\*   that fold to one key
CallerModels ==
    { DetectorModel(<<97, 49>>, <<98, 49>>, <<99, 49>>, "FCCee"),
      DetectorModel(<<65, 49>>, <<66, 49>>, <<67, 49>>, "ILC"),
      DetectorModel(<<100, 49>>, <<97, 49>>, <<101, 49>>, "ILC"),
      DetectorModel(<<88, 121>>, <<90, 119>>, <<85, 118>>, "FCCee"),
      DetectorModel(<<107, 49>>, <<75, 49>>, <<107, 95, 49>>, "ILC") }

AllModels == Range(BuiltinModels) \cup CallerModels

Aliases(m) == {m.short_name, m.long_name, m.pub_name}

\* the lower-cased aliases of a set of models
AliasKeys(ms) == {Lower(a) : a \in UNION {Aliases(m) : m \in ms}}

\* "nope"
Nope == <<110, 111, 112, 101>>

\* the keys passed to get, to the option and to detModNames
ProbeKeys == UNION {CaseVariations(a) : a \in UNION {Aliases(m) : m \in AllModels}} \cup {Nope}

(***************************************************************************)
(* DetectorModel.get_name                                                  *)
(***************************************************************************)

parser_opt_use_long_det_name == "detname_long"

parser_opt_use_pub_det_name == "detname_pub"

\* an args namespace: the attributes it has, each True or False
ArgsSet ==
    UNION {[D -> BOOLEAN] :
             D \in SUBSET {parser_opt_use_long_det_name, parser_opt_use_pub_det_name}}

\* getattr(args, name, default)
getattr(args, name, default) == IF name \in DOMAIN args THEN args[name] ELSE default

\* get_name with the default of the first getattr flipped to True
get_name_default_true(model, args) ==
    IF getattr(args, parser_opt_use_long_det_name, TRUE) THEN model.long_name
    ELSE IF getattr(args, parser_opt_use_pub_det_name, FALSE) THEN model.pub_name
    ELSE model.short_name

get_name(model, args) ==
    IF getattr(args, parser_opt_use_long_det_name, FALSE) THEN model.long_name
    ELSE IF getattr(args, parser_opt_use_pub_det_name, FALSE) THEN model.pub_name
    ELSE model.short_name

(***************************************************************************)
(* DetectorModelRegistry                                                   *)
(***************************************************************************)

\* DetectorModelRegistry.__init__: self._models = {}
EmptyDict == [k \in {} |-> 0]

\* register that stores each key as written, without folding
register_as_written(models, model) ==
    LET keys == Aliases(model)
    IN  [k \in DOMAIN models \cup keys |-> IF k \in keys THEN model ELSE models[k]]

\* register: every alias, lower-cased, is bound to the model; a binding
\* that exists is overwritten and nothing is raised
register(models, model) ==
    LET keys == {Lower(key) : key \in Aliases(model)}
    IN  [k \in DOMAIN models \cup keys |-> IF k \in keys THEN model ELSE models[k]]

\* get with a fallback: an unknown key answers with some registered model
get_with_default(models, key) ==
    IF Lower(key) \in DOMAIN models
    THEN [kind |-> "ok", model |-> models[Lower(key)]]
    ELSE IF DOMAIN models # {}
         THEN [kind |-> "ok", model |-> models[CHOOSE k \in DOMAIN models : TRUE]]
         ELSE [kind |-> "KeyError"]

\* get that looks the key up as written
get_as_written(models, key) ==
    IF key \in DOMAIN models
    THEN [kind |-> "ok", model |-> models[key]]
    ELSE [kind |-> "KeyError"]

\* get: self._models[key.lower()], a KeyError when the key is absent
get(models, key) ==
    IF Lower(key) \in DOMAIN models
    THEN [kind |-> "ok", model |-> models[Lower(key)]]
    ELSE [kind |-> "KeyError"]

\* list_keys: sorted(set(m.short_name for m in self._models.values()))
list_keys(models) == Sorted({models[k].short_name : k \in DOMAIN models})

\* list_all_keys: sorted(set(self._models.keys()))
list_all_keys(models) == Sorted(DOMAIN models)

RECURSIVE registerAll(_, _)
\* a run of register calls, first to last
registerAll(models, ms) ==
    IF ms = <<>> THEN models
    ELSE registerAll(register(models, Head(ms)), Tail(ms))

\* the module-level registry after the five register calls
ModuleRegistry == registerAll(EmptyDict, BuiltinModels)

(***************************************************************************)
(* add_common_args: the --detectorModels option                            *)
(***************************************************************************)

\* choices=registry.list_keys() + [key.upper() for key in registry.list_keys()]
choices(models) ==
    LET keys == list_keys(models)
    IN  keys \o [i \in 1..Len(keys) |-> Upper(keys[i])]

\* default=["v02"]
DefaultDetectorModels == << <<118, 48, 50>> >>

\* argparse's check of one value of the option: value in choices
check_value(models, value) == value \in Range(choices(models))

(***************************************************************************)
(* CaseInsensitiveDict and detModNames                                     *)
(***************************************************************************)

\* CaseInsensitiveDict(d): dict.__init__ copies the entries of d under the
\* keys d has; it does not go through __setitem__
CaseInsensitiveDict(d) == [k \in DOMAIN d |-> d[k]]

\* __getitem__: super().__getitem__(key.lower())
getitem(d, key) ==
    IF Lower(key) \in DOMAIN d
    THEN [kind |-> "ok", value |-> d[Lower(key)]]
    ELSE [kind |-> "KeyError"]

\* __setitem__: super().__setitem__(key.lower(), value)
setitem(d, key, value) ==
    [k \in DOMAIN d \cup {Lower(key)} |-> IF k = Lower(key) THEN value ELSE d[k]]

\* detModNames = CaseInsensitiveDict({short_name: short_name for short_name
\*                                    in registry.list_keys()})
detModNamesOf(models) ==
    LET names == Range(list_keys(models))
    IN  CaseInsensitiveDict([short_name \in names |-> short_name])

(***************************************************************************)
(* State and operations                                                    *)
(***************************************************************************)

\* number of register calls made before detModNames is built (SpecDict)
MaxInitModels == 2

\* _models:     the dict of the registry
\* registered:  the models passed to register so far
\* detModNames: the module-level CaseInsensitiveDict
\* ret:         the last call and what it returned or raised
\* The registry is a fresh DetectorModelRegistry() or the module's own.
Init ==
    /\ \/ /\ _models = EmptyDict
          /\ registered = {}
       \/ /\ _models = ModuleRegistry
          /\ registered = Range(BuiltinModels)
    /\ detModNames = detModNamesOf(_models)
    /\ ret = [op |-> "none"]

Register(model) ==
    /\ _models' = register(_models, model)
    /\ registered' = registered \cup {model}
    /\ ret' = [op |-> "register", model |-> model, kind |-> "ok"]
    /\ UNCHANGED detModNames

Get(key) ==
    /\ ret' = [op |-> "get", key |-> key, result |-> get(_models, key)]
    /\ UNCHANGED <<_models, registered, detModNames>>

ListKeys ==
    /\ ret' = [op |-> "list_keys", result |-> list_keys(_models)]
    /\ UNCHANGED <<_models, registered, detModNames>>

ListAllKeys ==
    /\ ret' = [op |-> "list_all_keys", result |-> list_all_keys(_models)]
    /\ UNCHANGED <<_models, registered, detModNames>>

GetName(model, args) ==
    /\ ret' = [op |-> "get_name", model |-> model, args |-> args,
               result |-> [kind |-> "ok", value |-> get_name(model, args)]]
    /\ UNCHANGED <<_models, registered, detModNames>>

\* one value of --detectorModels checked by a parser that add_common_args
\* has just set up
CheckValue(value) ==
    /\ ret' = [op |-> "detectorModels", value |-> value,
               accepted |-> check_value(_models, value)]
    /\ UNCHANGED <<_models, registered, detModNames>>

GetItem(key) ==
    /\ ret' = [op |-> "getitem", key |-> key, result |-> getitem(detModNames, key)]
    /\ UNCHANGED <<_models, registered, detModNames>>

\* detModNames[key] = short_name, a further entry of the short-name lookup
SetItem(key, short_name) ==
    /\ detModNames' = setitem(detModNames, key, short_name)
    /\ ret' = [op |-> "setitem", key |-> key, value |-> short_name]
    /\ UNCHANGED <<_models, registered>>

(***************************************************************************)
(* Specifications                                                          *)
(***************************************************************************)

\* the registry: register, get, list_keys, list_all_keys
Next ==
    \/ \E model \in CallerModels : Register(model)
    \/ \E key \in ProbeKeys : Get(key)
    \/ ListKeys
    \/ ListAllKeys

Spec == Init /\ [][Next]_vars

\* get_name of any model under any args namespace
NextName == \E model \in AllModels, args \in ArgsSet : GetName(model, args)

SpecName == Init /\ [][NextName]_vars

\* the registry and the --detectorModels option built from it
NextArgs ==
    \/ \E model \in CallerModels : Register(model)
    \/ \E value \in ProbeKeys : CheckValue(value)

SpecArgs == Init /\ [][NextArgs]_vars

\* the runs of at most n register calls
RegisterRuns(n) == UNION {[1..k -> CallerModels] : k \in 0..n}

\* detModNames is built from the module's registry or from one a caller
\* has filled
InitDict ==
    /\ \/ /\ _models = ModuleRegistry
          /\ registered = Range(BuiltinModels)
       \/ \E run \in RegisterRuns(MaxInitModels) :
            /\ _models = registerAll(EmptyDict, run)
            /\ registered = Range(run)
    /\ detModNames = detModNamesOf(_models)
    /\ ret = [op |-> "none"]

NextDict ==
    \/ \E key \in ProbeKeys : GetItem(key)
    \/ \E short_name \in Range(list_keys(_models)) :
         \E key \in CaseVariations(short_name) : SetItem(key, short_name)

SpecDict == InitDict /\ [][NextDict]_vars

(***************************************************************************)
(* Properties                                                              *)
(***************************************************************************)

\* the attribute is present and True
Selected(args, name) == name \in DOMAIN args /\ args[name]

\* some alias of the model is bound to a different model
Conflict(models, model) ==
    \E a \in Aliases(model) :
        Lower(a) \in DOMAIN models /\ models[Lower(a)] # model

\* no two different models share a lower-cased alias
UniqueAcross(ms) ==
    \A m1 \in ms : \A m2 \in ms :
        m1 # m2 => AliasKeys({m1}) \cap AliasKeys({m2}) = {}

StrictlyAscending(q) ==
    \A i \in DOMAIN q : \A j \in DOMAIN q : i < j => StrLess(q[i], q[j])

\* C1: get of any case variation of any alias of a registered model returns
\* that model.
C1_AliasResolvesToItsModel ==
    ret.op = "get" =>
        \A m \in registered : \A a \in Aliases(m) :
            ret.key \in CaseVariations(a) =>
                ret.result.kind = "ok" /\ ret.result.model = m

\* C2: register of a model one of whose lower-cased aliases is bound to a
\* different model raises ConflictError and leaves every binding as it was.
C2_ConflictRaises ==
    [][(ret'.op = "register" /\ Conflict(_models, ret'.model))
         => (ret'.kind = "ConflictError" /\ _models' = _models)]_vars

\* C3: get of a key whose lower-cased form is no lower-cased alias of a
\* registered model raises the not-found error (KeyError), returns no model,
\* and leaves the bindings as they were.
C3_UnknownKeyNotFound ==
    [][(ret'.op = "get" /\ Lower(ret'.key) \notin AliasKeys(registered))
         => (ret'.result.kind = "KeyError" /\ _models' = _models)]_vars

C3_Witness ==
    /\ ret.op = "get"
    /\ ret.key = Nope
    /\ registered \cap CallerModels # {}
    /\ ret.result.kind = "KeyError"

\* C4: list_keys returns exactly the short names of all models that were
\* registered, ascending and without duplicates.
C4_ListKeysAllShortNames ==
    ret.op = "list_keys" =>
        /\ Range(ret.result) = {m.short_name : m \in registered}
        /\ StrictlyAscending(ret.result)

\* C5: list_all_keys returns exactly the lower-cased aliases of all models
\* that were registered, ascending and without duplicates, and no key has an
\* upper-case character.
C5_ListAllKeysFolded ==
    ret.op = "list_all_keys" =>
        /\ Range(ret.result) = AliasKeys(registered)
        /\ StrictlyAscending(ret.result)
        /\ \A i \in DOMAIN ret.result : ~HasUpper(ret.result[i])

C5_Witness ==
    /\ ret.op = "list_all_keys"
    /\ Cardinality(registered) >= 2
    /\ \E m \in registered \cap CallerModels : HasUpper(m.short_name)
    /\ Len(ret.result) >= 4

\* C6: get_name returns short_name when neither selection is set (absent
\* attributes included), long_name when only the long-name selection is set,
\* pub_name when only the publication-name selection is set.
C6_GetNameSelection ==
    ret.op = "get_name" =>
        LET long == Selected(ret.args, parser_opt_use_long_det_name)
            pub  == Selected(ret.args, parser_opt_use_pub_det_name)
        IN  /\ (~long /\ ~pub) =>
                 (ret.result.kind = "ok" /\ ret.result.value = ret.model.short_name)
            /\ (long /\ ~pub) =>
                 (ret.result.kind = "ok" /\ ret.result.value = ret.model.long_name)
            /\ (~long /\ pub) =>
                 (ret.result.kind = "ok" /\ ret.result.value = ret.model.pub_name)

C6_Witness ==
    /\ ret.op = "get_name"
    /\ DOMAIN ret.args = {}
    /\ ret.result.value = ret.model.short_name
    /\ ret.model.short_name # ret.model.long_name

\* C7: get_name with both the long-name and the publication-name selection
\* set raises InvalidSelectionError.
C7_BothSelectedRaises ==
    (/\ ret.op = "get_name"
     /\ Selected(ret.args, parser_opt_use_long_det_name)
     /\ Selected(ret.args, parser_opt_use_pub_det_name))
        => ret.result.kind = "InvalidSelectionError"

\* C8: a value of --detectorModels is accepted if and only if its
\* lower-cased form is the lower-cased form of a short name of list_keys.
C8_ChoicesCaseInsensitive ==
    ret.op = "detectorModels" =>
        (ret.accepted <=>
            \E s \in Range(list_keys(_models)) : Lower(ret.value) = Lower(s))

\* C9: detModNames[k] returns the short name s for every case variation k of
\* every short name s of list_keys.
C9_DetModNamesCaseInsensitive ==
    ret.op = "getitem" =>
        \A s \in Range(list_keys(_models)) :
            ret.key \in CaseVariations(s) =>
                ret.result.kind = "ok" /\ ret.result.value = s

\* C10: when no two registered models share a lower-cased alias, every value
\* the option accepts resolves through get to a model whose short name is
\* that value up to case, and so does the default of the option when the
\* built-in models are registered.
C10_AcceptedValueResolves ==
    UniqueAcross(registered) =>
        /\ (ret.op = "detectorModels" /\ ret.accepted) =>
              LET r == get(_models, ret.value)
              IN  r.kind = "ok" /\ Lower(r.model.short_name) = Lower(ret.value)
        /\ Range(BuiltinModels) \subseteq registered =>
              \A i \in DOMAIN DefaultDetectorModels :
                  LET r == get(_models, DefaultDetectorModels[i])
                  IN  r.kind = "ok" /\ r.model.short_name = DefaultDetectorModels[i]

C10_Witness ==
    /\ ret.op = "detectorModels"
    /\ ret.accepted
    /\ UniqueAcross(registered)
    /\ \E m \in registered \cap CallerModels :
          HasUpper(m.short_name) /\ ret.value = Upper(m.short_name)
                                 /\ ret.value # m.short_name

====
